---- MODULE Spec2Model ----
(***************************************************************************)
(* Model of src/modash/regex-search.ts: the $regex operator with a         *)
(* trigram Bloom prefilter.  The process-wide state is the statistics      *)
(* record, the default configuration and the shared filter; each exported  *)
(* function is one action.  bloom-filter.ts (RegexSearchBloomFilter,       *)
(* extractLiteralsFromRegex, extractTrigrams) is modelled from spec.md     *)
(* sections 3, 4.1, 4.2, 4.3 and 4.5.                                      *)
(*                                                                         *)
(* Strings are sequences of one-character strings.  A JavaScript value is  *)
(* a record [t, s, kids]: t is its typeof tag, s its text (a string's      *)
(* characters, a number's decimal digits), kids its own properties.        *)
(***************************************************************************)
EXTENDS Integers, Sequences, FiniteSets, TLC

VARIABLES regexSearchStats, defaultConfig, globalRegexSearchFilter, last,
          queriesSinceReset, suite, held

vars == <<regexSearchStats, defaultConfig, globalRegexSearchFilter, last,
          queriesSinceReset, suite, held>>

----------------------------------------------------------------------------
(* JavaScript values *)

NoKids == [k \in {} |-> 0]

Undefined == [t |-> "undefined", s |-> <<>>, kids |-> NoKids]

Str(s) == [t |-> "string", s |-> s, kids |-> NoKids]

Num(digits) == [t |-> "number", s |-> digits, kids |-> NoKids]

Obj(kids) == [t |-> "object", s |-> <<>>, kids |-> kids]

\* Number.prototype.toString for an array index
IndexToString(i) == << <<"0", "1", "2", "3", "4", "5", "6", "7", "8", "9">>[i + 1] >>

Max(S) == CHOOSE x \in S : \A y \in S : y <= x

Min(S) == CHOOSE x \in S : \A y \in S : x <= y

\* path.split('.')
RECURSIVE SplitFrom(_, _, _, _)
SplitFrom(path, i, cur, acc) ==
  IF i > Len(path) THEN Append(acc, cur)
  ELSE IF path[i] = "." THEN SplitFrom(path, i + 1, "", Append(acc, cur))
  ELSE SplitFrom(path, i + 1, cur \o path[i], acc)

Split(path) == SplitFrom(path, 1, "", <<>>)

\* the loop of getNestedFieldValue, from key number i on
RECURSIVE Descend(_, _, _)
Descend(current, keys, i) ==
  IF i > Len(keys) THEN current
  ELSE IF current.t # "object" THEN Undefined
  ELSE Descend(IF keys[i] \in DOMAIN current.kids THEN current.kids[keys[i]]
               ELSE Undefined, keys, i + 1)

getNestedFieldValue(obj, path) == Descend(obj, Split(path), 1)

----------------------------------------------------------------------------
(* RegExp: the dialect has literal characters, '.', a postfix '*', and '('  *)
(* which (without ')' in the alphabet) opens a group that is never closed.  *)

\* what new RegExp throws
SyntaxError ==
  [error |-> TRUE, source |-> <<>>, ignoreCase |-> FALSE, global |-> FALSE,
   sticky |-> FALSE]

Flags == {"g", "i", "y"}

IsQuantifier(c) == c = "*"

\* new RegExp(pattern, options) throws on an unknown flag, an unterminated
\* group, or a quantifier with nothing to repeat
Compilable(pattern, options) ==
  /\ \A k \in 1..Len(options) : options[k] \in Flags
  /\ \A k \in 1..Len(pattern) : pattern[k] # "("
  /\ \A k \in 1..Len(pattern) :
       IsQuantifier(pattern[k]) => k > 1 /\ ~IsQuantifier(pattern[k - 1])

HasFlag(options, f) == \E k \in 1..Len(options) : options[k] = f

RegExpNew(pattern, options) ==
  IF Compilable(pattern, options)
  THEN [error |-> FALSE, source |-> pattern, ignoreCase |-> HasFlag(options, "i"),
        global |-> HasFlag(options, "g"), sticky |-> HasFlag(options, "y")]
  ELSE SyntaxError

\* case folding of the 'i' flag
Fold(c) == IF c = "A" THEN "a" ELSE IF c = "B" THEN "b" ELSE c

AtomMatches(atom, ch, ic) ==
  \/ atom = "."
  \/ IF ic THEN Fold(atom) = Fold(ch) ELSE atom = ch

\* how many characters of s after offset j the atom matches in a row
RECURSIVE RunLength(_, _, _, _)
RunLength(atom, s, j, ic) ==
  IF j < Len(s) /\ AtomMatches(atom, s[j + 1], ic)
  THEN 1 + RunLength(atom, s, j + 1, ic) ELSE 0

\* backtracking match of p[i..] at offset j of s: the end offset, or -1
RECURSIVE MatchEnd(_, _, _, _, _)
MatchEnd(p, i, s, j, ic) ==
  IF i > Len(p) THEN j
  ELSE IF i < Len(p) /\ IsQuantifier(p[i + 1])
  THEN LET ends == {k \in 0..RunLength(p[i], s, j, ic) :
                      MatchEnd(p, i + 2, s, j + k, ic) # -1}
       IN IF ends = {} THEN -1 ELSE MatchEnd(p, i + 2, s, j + Max(ends), ic)
  ELSE IF j < Len(s) /\ AtomMatches(p[i], s[j + 1], ic)
  THEN MatchEnd(p, i + 1, s, j + 1, ic)
  ELSE -1

\* regex.test(s) with the regex's lastIndex: the verdict and the new lastIndex
RegExpTest(regex, s, lastIndex) ==
  LET stateful == regex.global \/ regex.sticky
      start == IF stateful THEN lastIndex ELSE 0
      offsets == IF start > Len(s) THEN {}
                 ELSE IF regex.sticky THEN {start} ELSE start..Len(s)
      hits == {o \in offsets : MatchEnd(regex.source, 1, s, o, regex.ignoreCase) # -1}
  IN IF hits = {}
     THEN [found |-> FALSE, lastIndex |-> IF stateful THEN 0 ELSE lastIndex]
     ELSE [found |-> TRUE,
           lastIndex |-> IF stateful
                         THEN MatchEnd(regex.source, 1, s, Min(hits), regex.ignoreCase)
                         ELSE lastIndex]

\* whether a fresh matcher for (pattern, options) finds a match in s
Matches(pattern, options, s) ==
  /\ Compilable(pattern, options)
  /\ \E o \in 0..Len(s) : MatchEnd(pattern, 1, s, o, HasFlag(options, "i")) # -1

----------------------------------------------------------------------------
(* bloom-filter.ts, from spec.md sections 3, 4.1, 4.2, 4.3 and 4.5 *)

\* the metacharacters of the complexity score
IsMeta(c) == c \in {".", "*", "+", "?", "^", "$", "{", "}", "(", ")", "|", "[", "]", "\\"}

\* the pattern as the extractor reads it: malformed patterns have no literals
WellFormed(pattern) == Compilable(pattern, <<>>)

Flush(acc, cur) == IF cur = <<>> THEN acc ELSE Append(acc, cur)

\* maximal runs of characters that every match must contain verbatim: a
\* metacharacter ends a run, and so does a character under a quantifier
RECURSIVE LiteralRuns(_, _, _, _)
LiteralRuns(p, i, cur, acc) ==
  IF i > Len(p) THEN Flush(acc, cur)
  ELSE IF IsMeta(p[i]) THEN LiteralRuns(p, i + 1, <<>>, Flush(acc, cur))
  ELSE IF i < Len(p) /\ IsQuantifier(p[i + 1])
  THEN LiteralRuns(p, i + 2, <<>>, Flush(acc, cur))
  ELSE LiteralRuns(p, i + 1, Append(cur, p[i]), acc)

extractLiteralsFromRegex(pattern) ==
  IF WellFormed(pattern) THEN LiteralRuns(pattern, 1, <<>>, <<>>) ELSE <<>>

\* the distinct 3-character windows of a text
extractTrigrams(text) == {SubSeq(text, i, i + 2) : i \in 1..(Len(text) - 2)}

CharCode(c) ==
  CASE c = "a" -> 1 [] c = "b" -> 2 [] c = "A" -> 3 [] c = "B" -> 4 [] OTHER -> 5

TrigramCode(t) == CharCode(t[1]) * 36 + CharCode(t[2]) * 6 + CharCode(t[3])

\* the k-th hash function over a bit array of nbits bits
HashBit(t, k, nbits) == (TrigramCode(t) * (2 * k + 1) + k) % nbits

TrigramBits(t, filter) ==
  {HashBit(t, k, 8 * filter.sizeBytes) : k \in 1..filter.hashCount}

NoEntries == [d \in {} |-> {}]

\* new RegexSearchBloomFilter(sizeBytes, hashCount): one bit array per document
RegexSearchBloomFilter(sizeBytes, hashCount) ==
  [exists |-> TRUE, sizeBytes |-> sizeBytes, hashCount |-> hashCount,
   docs |-> NoEntries]

BitsOf(filter, docId) ==
  IF docId \in DOMAIN filter.docs THEN filter.docs[docId] ELSE {}

\* insert(documentId, text): set the bits of every trigram of text
addDocument(filter, docId, text) ==
  LET bits == UNION {TrigramBits(t, filter) : t \in extractTrigrams(text)}
  IN [filter EXCEPT !.docs =
        [d \in DOMAIN filter.docs \cup {docId} |->
           IF d = docId THEN BitsOf(filter, d) \cup bits ELSE filter.docs[d]]]

\* probe(documentId, trigram)
probe(filter, docId, trigram) == TrigramBits(trigram, filter) \subseteq BitsOf(filter, docId)

\* the trigrams of every literal of the pattern long enough to have one
PatternTrigrams(pattern) ==
  LET literals == extractLiteralsFromRegex(pattern)
  IN UNION {extractTrigrams(literals[k]) : k \in 1..Len(literals)}

\* testRegexPattern(pattern): the identities whose entry passes every probe
testRegexPattern(filter, pattern) ==
  LET trigrams == PatternTrigrams(pattern)
  IN IF trigrams = {}
     THEN [candidates |-> {}, shouldUsePrefilter |-> FALSE]
     ELSE [candidates |-> {d \in DOMAIN filter.docs :
                             \A t \in trigrams : probe(filter, d, t)},
           shouldUsePrefilter |-> TRUE]

\* clear(): drops all per-document state
clear(filter) == [filter EXCEPT !.docs = NoEntries]

----------------------------------------------------------------------------
(* regex-search.ts *)

\* globalRegexSearchFilter = null
Null == [exists |-> FALSE, sizeBytes |-> 0, hashCount |-> 0, docs |-> NoEntries]

HashFunctions == 3

InitialStats ==
  [totalQueries |-> 0, prefilterHits |-> 0, candidatesBeforeFilter |-> 0,
   candidatesAfterFilter |-> 0, actualMatches |-> 0, falsePositiveRate |-> <<0, 1>>,
   averageSpeedupRatio |-> <<1, 1>>, totalPrefilterTime |-> 0,
   totalVerificationTime |-> 0, unsupportedPatterns |-> 0, shortPatterns |-> 0]

InitialConfig ==
  [enableBloomFilter |-> TRUE, bloomFilterSizeBytes |-> 256,
   minLiteralLength |-> 3, maxPatternComplexity |-> 100]

\* { ...a, ...b } and Object.assign(a, b)
Assign(a, b) ==
  [k \in DOMAIN a \cup DOMAIN b |-> IF k \in DOMAIN b THEN b[k] ELSE a[k]]

\* numbers that are not integers: <<n, d>> is n/d in lowest terms, <<0, 0>> is NaN
NaN == <<0, 0>>

RECURSIVE Gcd(_, _)
Gcd(a, b) == IF b = 0 THEN a ELSE Gcd(b, a % b)

Ratio(n, d) == IF d = 0 THEN NaN ELSE <<n \div Gcd(n, d), d \div Gcd(n, d)>>

\* (avg * (n - 1) + x) / n
RunningAverage(avg, x, n) ==
  IF avg = NaN \/ x = NaN THEN NaN
  ELSE Ratio((avg[1] * (n - 1)) * x[2] + x[1] * avg[2], avg[2] * x[2] * n)

\* getGlobalRegexFilter: the shared filter, created at the default size if absent
getGlobalRegexFilter(gfilter, dflt) ==
  IF gfilter = Null
  THEN RegexSearchBloomFilter(dflt.bloomFilterSizeBytes, HashFunctions)
  ELSE gfilter

\* (doc as any)._id?.toString(): undefined for a missing or undefined _id
IdString(doc) ==
  LET id == IF "_id" \in DOMAIN doc.kids THEN doc.kids["_id"] ELSE Undefined
  IN IF id.t \in {"string", "number"} THEN Str(id.s) ELSE Undefined

\* _id?.toString() || index.toString(), index counted from 0
DocId(doc, index) ==
  LET id == IdString(doc)
  IN IF id.t = "string" /\ id.s # <<>> THEN id.s ELSE IndexToString(index)

\* buildRegexDocumentIndex, from document number k (counted from 1) on
RECURSIVE BuildFrom(_, _, _, _)
BuildFrom(collection, k, field, filter) ==
  IF k > Len(collection) THEN filter
  ELSE LET fieldValue == getNestedFieldValue(collection[k], field)
       IN BuildFrom(collection, k + 1, field,
                    IF fieldValue.t = "string"
                    THEN addDocument(filter, DocId(collection[k], k - 1), fieldValue.s)
                    ELSE filter)

buildRegexDocumentIndex(collection, field, filter) ==
  BuildFrom(collection, 1, field, filter)

\* FilterFrom without the typeof test: the text of any value is matched
RECURSIVE FilterFromAnyType(_, _, _, _, _)
FilterFromAnyType(collection, k, field, regex, lastIndex) ==
  IF k > Len(collection) THEN <<>>
  ELSE LET fieldValue == getNestedFieldValue(collection[k], field)
           r == RegExpTest(regex, fieldValue.s, lastIndex)
       IN (IF r.found THEN <<collection[k]>> ELSE <<>>)
            \o FilterFromAnyType(collection, k + 1, field, regex, r.lastIndex)

\* FilterFrom collecting each match in front of the earlier ones
RECURSIVE FilterFromReversed(_, _, _, _, _)
FilterFromReversed(collection, k, field, regex, lastIndex) ==
  IF k > Len(collection) THEN <<>>
  ELSE LET fieldValue == getNestedFieldValue(collection[k], field)
       IN IF fieldValue.t # "string"
          THEN FilterFromReversed(collection, k + 1, field, regex, lastIndex)
          ELSE LET r == RegExpTest(regex, fieldValue.s, lastIndex)
               IN FilterFromReversed(collection, k + 1, field, regex, r.lastIndex)
                    \o (IF r.found THEN <<collection[k]>> ELSE <<>>)

\* collection.filter(doc => ... regex.test(fieldValue)), one matcher for the call
RECURSIVE FilterFrom(_, _, _, _, _)
FilterFrom(collection, k, field, regex, lastIndex) ==
  IF k > Len(collection) THEN <<>>
  ELSE LET fieldValue == getNestedFieldValue(collection[k], field)
       IN IF fieldValue.t # "string"
          THEN FilterFrom(collection, k + 1, field, regex, lastIndex)
          ELSE LET r == RegExpTest(regex, fieldValue.s, lastIndex)
               IN (IF r.found THEN <<collection[k]>> ELSE <<>>)
                    \o FilterFrom(collection, k + 1, field, regex, r.lastIndex)

\* what a call hands back: the returned collection, or an exception
Return(docs) == [threw |-> FALSE, docs |-> docs]

Throw == [threw |-> TRUE, docs |-> <<>>]

\* performFullRegexSearch without the try/catch around new RegExp
performFullRegexSearchUncaught(collection, field, pattern, options) ==
  LET regex == RegExpNew(pattern, options)
  IN IF regex = SyntaxError THEN Throw
     ELSE Return(FilterFrom(collection, 1, field, regex, 0))

performFullRegexSearch(collection, field, pattern, options) ==
  LET regex == RegExpNew(pattern, options)
  IN IF regex = SyntaxError THEN Return(<<>>)
     ELSE Return(FilterFrom(collection, 1, field, regex, 0))

\* collection.filter((doc, index) => candidateSet.has(index.toString()) ||
\*                                   candidateSet.has(doc._id?.toString()))
RECURSIVE CandidateDocsFrom(_, _, _)
CandidateDocsFrom(collection, k, candidateSet) ==
  IF k > Len(collection) THEN <<>>
  ELSE LET id == IdString(collection[k])
           keep == \/ IndexToString(k - 1) \in candidateSet
                   \/ id.t = "string" /\ id.s \in candidateSet
       IN (IF keep THEN <<collection[k]>> ELSE <<>>)
            \o CandidateDocsFrom(collection, k + 1, candidateSet)

\* countQuery assigning instead of incrementing
countQueryOnce(stats) == [stats EXCEPT !.totalQueries = 1]

\* regexSearchStats.totalQueries++
countQuery(stats) == [stats EXCEPT !.totalQueries = @ + 1]

\* !pattern || typeof pattern !== 'string'
noPattern(pattern) == pattern.t # "string" \/ pattern.s = <<>>

\* literals.some(lit => lit.length >= mergedConfig.minLiteralLength)
hasUsefulLiterals(literals, minLiteralLength) ==
  \E k \in 1..Len(literals) : Len(literals[k]) >= minLiteralLength

\* overCeiling with >= for >
overCeilingInclusive(pattern, maxPatternComplexity) ==
  Len(pattern) >= maxPatternComplexity

\* pattern.length > mergedConfig.maxPatternComplexity
overCeiling(pattern, maxPatternComplexity) == Len(pattern) > maxPatternComplexity

\* skipPrefilter without the test for useful literals
skipPrefilterIgnoringLiterals(mergedConfig, useful, tooLong) ==
  ~mergedConfig.enableBloomFilter \/ tooLong

\* skipPrefilter without the test of enableBloomFilter
skipPrefilterWhenEnabled(mergedConfig, useful, tooLong) == ~useful \/ tooLong

\* the condition under which the prefilter is skipped
skipPrefilter(mergedConfig, useful, tooLong) ==
  ~mergedConfig.enableBloomFilter \/ ~useful \/ tooLong

\* !shouldUsePrefilter || candidates.length > collection.length * 0.7
prefilterIneffective(shouldUsePrefilter, candidates, length) ==
  ~shouldUsePrefilter \/ 10 * candidates > 7 * length

\* skippedStats counting one reason only
skippedStatsEither(counted, useful, tooLong) ==
  [counted EXCEPT
     !.shortPatterns = IF ~tooLong /\ ~useful THEN @ + 1 ELSE @,
     !.unsupportedPatterns = IF tooLong THEN @ + 1 ELSE @]

\* the statistics of a query that skips the prefilter
skippedStats(counted, useful, tooLong) ==
  [counted EXCEPT !.shortPatterns = IF ~useful THEN @ + 1 ELSE @,
                  !.unsupportedPatterns = IF tooLong THEN @ + 1 ELSE @]

\* estimatedFullScanTime / totalTime, or 1.0 without candidate documents
speedupRatio(totalTime, candidateDocs, length) ==
  IF candidateDocs > 0
  THEN IF totalTime = 0 THEN NaN ELSE Ratio(length, candidateDocs)
  ELSE <<1, 1>>

\* enhancedRegexMatch: what the call returns and the state it leaves, when the
\* clock advances dtPrefilter ticks over the prefilter phase and dtVerification
\* over the verification
enhancedRegexMatchCall(stats, dflt, gfilter, collection, field, pattern, options, config, dtPrefilter, dtVerification) ==
  LET mergedConfig == Assign(dflt, config)
      counted == countQuery(stats)
      idle == [candidates |-> {}, candidateDocs |-> <<>>, filter |-> gfilter]
  IN
  IF noPattern(pattern)
  THEN [path |-> "empty", ret |-> Return(<<>>), stats |-> counted] @@ idle
  ELSE
  LET literals == extractLiteralsFromRegex(pattern.s)
      useful == hasUsefulLiterals(literals, mergedConfig.minLiteralLength)
      tooLong == overCeiling(pattern.s, mergedConfig.maxPatternComplexity)
  IN
  IF skipPrefilter(mergedConfig, useful, tooLong)
  THEN [path |-> "ineligible",
        ret |-> performFullRegexSearch(collection, field, pattern.s, options),
        stats |-> skippedStats(counted, useful, tooLong)] @@ idle
  ELSE
  LET filter == buildRegexDocumentIndex(collection, field,
                                        getGlobalRegexFilter(gfilter, dflt))
      tested == testRegexPattern(filter, pattern.s)
      candidates == tested.candidates
      probed == [counted EXCEPT
                   !.candidatesBeforeFilter = @ + Len(collection),
                   !.candidatesAfterFilter = @ + Cardinality(candidates),
                   !.totalPrefilterTime = @ + dtPrefilter]
  IN
  IF prefilterIneffective(tested.shouldUsePrefilter, Cardinality(candidates),
                          Len(collection))
  THEN [path |-> "fallback",
        ret |-> performFullRegexSearch(collection, field, pattern.s, options),
        stats |-> probed, candidates |-> candidates, candidateDocs |-> <<>>,
        filter |-> filter]
  ELSE
  LET hit == [probed EXCEPT !.prefilterHits = @ + 1]
      candidateDocs == CandidateDocsFrom(collection, 1, candidates)
      results == performFullRegexSearch(candidateDocs, field, pattern.s, options)
  IN [path |-> "prefilter", ret |-> results,
      stats |-> IF results.threw THEN hit
                ELSE [hit EXCEPT
                        !.totalVerificationTime = @ + dtVerification,
                        !.actualMatches = @ + Len(results.docs),
                        !.averageSpeedupRatio =
                          RunningAverage(@, speedupRatio(dtPrefilter + dtVerification,
                                                         Len(candidateDocs),
                                                         Len(collection)),
                                         hit.totalQueries)],
      candidates |-> candidates, candidateDocs |-> candidateDocs, filter |-> filter]

\* ResetStats leaving the two skip counters as they are
ResetStatsKeepingSkips ==
  [totalQueries |-> 0, prefilterHits |-> 0, candidatesBeforeFilter |-> 0,
   candidatesAfterFilter |-> 0, actualMatches |-> 0, falsePositiveRate |-> <<0, 1>>,
   averageSpeedupRatio |-> <<1, 1>>, totalPrefilterTime |-> 0,
   totalVerificationTime |-> 0,
   unsupportedPatterns |-> regexSearchStats.unsupportedPatterns,
   shortPatterns |-> regexSearchStats.shortPatterns]

\* the object resetRegexSearchStats assigns
ResetStats ==
  [totalQueries |-> 0, prefilterHits |-> 0, candidatesBeforeFilter |-> 0,
   candidatesAfterFilter |-> 0, actualMatches |-> 0, falsePositiveRate |-> <<0, 1>>,
   averageSpeedupRatio |-> <<1, 1>>, totalPrefilterTime |-> 0,
   totalVerificationTime |-> 0, unsupportedPatterns |-> 0, shortPatterns |-> 0]

\* getRegexSearchStats: a copy with the derived false-positive rate
statsSnapshot(stats) ==
  IF stats.candidatesBeforeFilter > 0
  THEN [stats EXCEPT !.falsePositiveRate =
          IF stats.candidatesAfterFilter > stats.actualMatches
          THEN Ratio(stats.candidatesAfterFilter - stats.actualMatches,
                     stats.candidatesAfterFilter)
          ELSE <<0, 1>>]
  ELSE stats

\* pattern.length plus the number of metacharacters
Complexity(pattern) ==
  Len(pattern) + Cardinality({k \in 1..Len(pattern) : IsMeta(pattern[k])})

\* the 3-character windows of a text from offset i on, each once, in order
RECURSIVE WindowsFrom(_, _, _)
WindowsFrom(literal, i, acc) ==
  IF i + 2 > Len(literal) THEN acc
  ELSE LET w == SubSeq(literal, i, i + 2)
       IN WindowsFrom(literal, i + 1,
                      IF \E k \in 1..Len(acc) : acc[k] = w THEN acc ELSE Append(acc, w))

\* literals.forEach(literal => trigrams.push(...extractTrigrams(literal)))
RECURSIVE PushTrigrams(_, _)
PushTrigrams(literals, k) ==
  IF k > Len(literals) THEN <<>>
  ELSE WindowsFrom(literals[k], 1, <<>>) \o PushTrigrams(literals, k + 1)

\* the report of analyzeRegexPattern
analyzeRegexPatternCall(pattern) ==
  LET literals == extractLiteralsFromRegex(pattern)
      complexity == Complexity(pattern)
  IN [literals |-> literals,
      trigrams |-> PushTrigrams(literals, 1),
      suitableForBloom |-> /\ \E k \in 1..Len(literals) : Len(literals[k]) >= 3
                           /\ complexity <= 100,
      complexity |-> complexity]

\* const stats = regexSearchStats: the stored object itself
sameStats(stats) == [taken |-> TRUE, alias |-> TRUE, value |-> stats]

\* const stats = { ...regexSearchStats }: a new object with the fields' values
spreadStats(stats) == [taken |-> TRUE, alias |-> FALSE, value |-> stats]

\* the statistics object a reference designates
Deref(ref, stats) == IF ref.alias THEN stats ELSE ref.value

\* a caller's variable that holds no statistics object yet
NoSnapshot == [taken |-> FALSE, alias |-> FALSE, value |-> InitialStats]

\* clearRegexSearchIndex leaving the shared filter in place
filterAfterClearKept(gfilter) == gfilter

\* clearRegexSearchIndex: the filter after the call
filterAfterClear(gfilter) == Null

\* configureRegexSearch: the filter after the call
filterAfterConfigure(gfilter, config) ==
  IF /\ gfilter # Null
     /\ \/ "bloomFilterSizeBytes" \in DOMAIN config
        \/ "enableBloomFilter" \in DOMAIN config /\ ~config.enableBloomFilter
  THEN Null ELSE gfilter

----------------------------------------------------------------------------
(* the calls the model makes *)

MaxQueries == 2

MaxTick == 1

aba == <<"a", "b", "a">>

Text(s) == Obj([k \in {"text"} |-> Str(s)])

WithId(id, s) == Obj([k \in {"_id", "text"} |-> IF k = "_id" THEN id ELSE Str(s)])

Nested(s) ==
  Obj([k \in {"meta", "text"} |->
         IF k = "meta" THEN Obj([j \in {"text"} |-> Str(s)]) ELSE Num(<<"7">>)])

bbb == <<"b", "b", "b">>

Plain == <<Text(aba), Text(bbb), Text(<<"a", "b", "a", "b">>), Text(<<"A", "B", "A">>)>>

Single == <<Text(aba)>>

Mixed == <<WithId(Str(<<"x">>), aba), WithId(Str(<<"0">>), <<"a", "b">>), Nested(aba)>>

Clash == <<WithId(Str(<<"x">>), bbb), WithId(Str(<<"0">>), aba), Text(<<"b", "b">>)>>

Shared == <<Text(aba), WithId(Str(<<"0">>), <<"a", "b", "a", "b">>), Text(bbb)>>

text == <<"t", "e", "x", "t">>

metaText == <<"m", "e", "t", "a", ".", "t", "e", "x", "t">>

NoConfig == [k \in {} |-> 0]

Query(collections, fields, patterns, options, configs) ==
  [collection : collections, field : fields, pattern : patterns,
   options : options, config : configs]

Suites == {"patterns", "flags", "documents", "identities", "snapshots", "analysis"}

\* the queries of a behaviour: the patterns with and without a useful literal
\* under the overrides that decide eligibility; the flags on a literal pattern;
\* collections with identifiers, nested, non-string and missing fields; a
\* collection where an _id equals another document's position; or the query
\* of a caller that keeps the statistics object it was handed
QueriesOf(s) ==
  CASE s = "patterns" ->
         Query({Plain}, {text},
               { Str(<<>>), Num(<<"7">>), Str(<<"a">>), Str(aba),
                 Str(<<"a", "b", "a", ".">>), Str(<<"a", "b", "a", "(">>),
                 Str(<<".", "*">>) },
               {<<>>}, {NoConfig})
           \cup Query({Plain}, {text}, {Str(<<"a">>), Str(aba)}, {<<>>},
                      {[enableBloomFilter |-> FALSE], [minLiteralLength |-> 4]})
           \cup Query({Plain}, {text},
                      { Str(<<"a", "b", "a", ".">>), Str(<<".", "*", ".", "*", ".">>),
                        Str(<<"a", "b", "a", ".", "*">>) },
                      {<<>>}, {[maxPatternComplexity |-> 4]})
           \cup Query({Plain}, {text}, {Str(<<>>), Str(aba)}, {<<>>},
                      {[enableBloomFilter |-> TRUE]})
    [] s = "flags" ->
         Query({Plain}, {text}, {Str(aba)}, {<<>>, <<"i">>, <<"g">>, <<"y">>, <<"x">>},
               {NoConfig})
           \cup Query({Single}, {text}, {Str(aba), Str(<<".", "*">>)},
                      {<<>>, <<"x">>}, {NoConfig})
           \cup Query({Plain}, {text}, {Str(aba)}, {<<"g">>},
                      {[minLiteralLength |-> 4]})
    [] s = "documents" ->
         Query({Mixed, <<>>}, {text, metaText}, {Str(aba)}, {<<>>}, {NoConfig})
           \cup Query({Plain, Mixed}, {text}, {Str(aba), Str(<<".", "*">>)}, {<<>>},
                      {NoConfig})
    [] s = "identities" ->
         Query({Clash, Single, Shared}, {text}, {Str(aba)}, {<<>>}, {NoConfig})
    [] s = "snapshots" ->
         Query({Plain}, {text}, {Str(aba)}, {<<>>}, {NoConfig})
    [] s = "analysis" ->
         Query({Plain}, {text}, {Str(aba)}, {<<>>}, {NoConfig})

\* the patterns a behaviour asks analyzeRegexPattern about
AnalysedOf(s) ==
  IF s = "analysis"
  THEN {<<>>, <<"a">>, aba, <<"a", "b", "a", ".">>, <<"a", "b", "a", ".", "*">>}
  ELSE {}

\* the limits a behaviour configures besides Configurations
TuningOf(s) ==
  IF s = "analysis"
  THEN {[minLiteralLength |-> 4], [maxPatternComplexity |-> 4]}
  ELSE {}

Configurations ==
  { [enableBloomFilter |-> FALSE], [enableBloomFilter |-> TRUE],
    [bloomFilterSizeBytes |-> 1] }

\* the value the caller writes into a statistics object
Scribble == 0 - 1

NoCall ==
  [op |-> "init", collection |-> <<>>, field |-> <<>>, pattern |-> Undefined,
   options |-> <<>>, config |-> NoConfig, path |-> "none", ret |-> Return(<<>>),
   candidates |-> {}, candidateDocs |-> <<>>, snapshot |-> InitialStats,
   priorQueries |-> 0, elapsed |-> 0, afterClear |-> FALSE,
   report |-> [literals |-> <<>>, trigrams |-> <<>>, suitableForBloom |-> FALSE,
               complexity |-> 0]]

\* the record of a call made in the current state
Called(op) == [NoCall EXCEPT !.op = op, !.priorQueries = regexSearchStats.totalQueries]

----------------------------------------------------------------------------
Init ==
  /\ regexSearchStats = InitialStats
  /\ defaultConfig = InitialConfig
  /\ globalRegexSearchFilter = Null
  /\ last = NoCall
  /\ queriesSinceReset = 0
  /\ suite \in Suites
  /\ held = NoSnapshot

enhancedRegexMatch ==
  /\ regexSearchStats.totalQueries < MaxQueries
  /\ \E q \in QueriesOf(suite), tick \in 0..MaxTick :
       LET call == enhancedRegexMatchCall(regexSearchStats, defaultConfig,
                     globalRegexSearchFilter, q.collection, q.field, q.pattern,
                     q.options, q.config, tick, tick)
       IN /\ regexSearchStats' = call.stats
          /\ globalRegexSearchFilter' = call.filter
          /\ last' = [Called("match") EXCEPT
                        !.collection = q.collection, !.field = q.field,
                        !.pattern = q.pattern, !.options = q.options,
                        !.config = q.config, !.path = call.path, !.ret = call.ret,
                        !.candidates = call.candidates,
                        !.candidateDocs = call.candidateDocs,
                        !.elapsed = 2 * tick,
                        !.afterClear = (last.op = "clear")]
  /\ queriesSinceReset' = queriesSinceReset + 1
  /\ UNCHANGED <<defaultConfig, suite, held>>

resetRegexSearchStats ==
  /\ regexSearchStats' = ResetStats
  /\ last' = Called("reset")
  /\ queriesSinceReset' = 0
  /\ UNCHANGED <<defaultConfig, globalRegexSearchFilter, suite, held>>

\* the derived metric is written to the object stats designates; the caller of
\* the suite "snapshots" keeps the first object it is handed
getRegexSearchStats ==
  LET stats == spreadStats(regexSearchStats)
      written == statsSnapshot(Deref(stats, regexSearchStats))
  IN /\ regexSearchStats' = IF stats.alias THEN written ELSE regexSearchStats
     /\ last' = [Called("stats") EXCEPT !.snapshot = written]
     /\ held' = IF suite = "snapshots" /\ ~held.taken
               THEN [stats EXCEPT !.value = written] ELSE held
     /\ UNCHANGED <<defaultConfig, globalRegexSearchFilter, queriesSinceReset, suite>>

\* the caller assigns to a field of the statistics object it was handed
modifySnapshot ==
  /\ held.taken
  /\ Deref(held, regexSearchStats).shortPatterns # Scribble
  /\ IF held.alias
     THEN /\ regexSearchStats' = [regexSearchStats EXCEPT !.shortPatterns = Scribble]
          /\ held' = held
     ELSE /\ held' = [held EXCEPT !.value.shortPatterns = Scribble]
          /\ regexSearchStats' = regexSearchStats
  /\ last' = Called("modify")
  /\ UNCHANGED <<defaultConfig, globalRegexSearchFilter, queriesSinceReset, suite>>

configureRegexSearch ==
  /\ \E config \in Configurations \cup TuningOf(suite) :
       /\ defaultConfig' = Assign(defaultConfig, config)
       /\ globalRegexSearchFilter' = filterAfterConfigure(globalRegexSearchFilter, config)
       /\ last' = [Called("configure") EXCEPT !.config = config]
  /\ UNCHANGED <<regexSearchStats, queriesSinceReset, suite, held>>

clearRegexSearchIndex ==
  /\ globalRegexSearchFilter' = filterAfterClear(globalRegexSearchFilter)
  /\ last' = Called("clear")
  /\ UNCHANGED <<regexSearchStats, defaultConfig, queriesSinceReset, suite, held>>

analyzeRegexPattern ==
  /\ \E pattern \in AnalysedOf(suite) :
       last' = [Called("analyze") EXCEPT
                  !.pattern = Str(pattern), !.report = analyzeRegexPatternCall(pattern)]
  /\ UNCHANGED <<regexSearchStats, defaultConfig, globalRegexSearchFilter,
                 queriesSinceReset, suite, held>>

Next ==
  \/ enhancedRegexMatch
  \/ resetRegexSearchStats
  \/ getRegexSearchStats
  \/ configureRegexSearch
  \/ clearRegexSearchIndex
  \/ modifySnapshot
  \/ analyzeRegexPattern

Spec == Init /\ [][Next]_vars

----------------------------------------------------------------------------
(* the claims *)

Range(seq) == {seq[k] : k \in 1..Len(seq)}

RECURSIVE IsSubsequenceFrom(_, _, _, _)
IsSubsequenceFrom(a, i, b, j) ==
  IF i > Len(a) THEN TRUE
  ELSE IF j > Len(b) THEN FALSE
  ELSE IF a[i] = b[j] THEN IsSubsequenceFrom(a, i + 1, b, j + 1)
  ELSE IsSubsequenceFrom(a, i, b, j + 1)

IsSubsequence(a, b) == IsSubsequenceFrom(a, 1, b, 1)

\* the last call was a query with a string for pattern
Queried(call) == call.op = "match" /\ call.pattern.t = "string"

\* the configuration in effect for the call
InEffect(call) == Assign(defaultConfig, call.config)

\* the non-accelerated match of the call's pattern over its whole collection
FullScan(call) ==
  performFullRegexSearch(call.collection, call.field, call.pattern.s, call.options)

\* no literal of the call's pattern reaches minLiteralLength
NoUsefulLiteral(call) ==
  LET literals == extractLiteralsFromRegex(call.pattern.s)
  IN \A k \in 1..Len(literals) : Len(literals[k]) < InEffect(call).minLiteralLength

\* C1: every document the full match over the whole collection reports is in
\* the result of enhancedRegexMatch
C1_Soundness ==
  Queried(last) => Range(FullScan(last).docs) \subseteq Range(last.ret.docs)

\* C2: every returned document has a string at the field path that the pattern
\* matches, on every path of enhancedRegexMatch
C2_VerifierDecides ==
  last.op = "match" =>
    /\ ~last.ret.threw
    /\ \A k \in 1..Len(last.ret.docs) :
         LET fieldValue == getNestedFieldValue(last.ret.docs[k], last.field)
         IN /\ fieldValue.t = "string"
            /\ Matches(last.pattern.s, last.options, fieldValue.s)

\* a prefilter hit whose verification dropped one of the candidate documents
C2_Witness ==
  /\ last.op = "match" /\ last.path = "prefilter"
  /\ Len(last.ret.docs) > 0
  /\ Len(last.ret.docs) < Len(last.candidateDocs)

\* C3: the result is a subsequence of the input collection
C3_Subsequence ==
  last.op = "match" => IsSubsequence(last.ret.docs, last.collection)

\* a prefilter hit that returns two documents of a longer collection
C3_Witness ==
  /\ last.op = "match" /\ last.path = "prefilter"
  /\ Len(last.ret.docs) >= 2
  /\ Len(last.ret.docs) < Len(last.collection)

\* C4: a query whose pattern has no literal of minLiteralLength returns the same
\* result with enableBloomFilter true and false, whatever the index holds
C4_FallbackCorrectness ==
  [][Queried(last') /\ NoUsefulLiteral(last') =>
       \A enable \in BOOLEAN :
         enhancedRegexMatchCall(regexSearchStats, defaultConfig,
                                globalRegexSearchFilter, last'.collection,
                                last'.field, last'.pattern, last'.options,
                                Assign(last'.config, [enableBloomFilter |-> enable]),
                                0, 0).ret = last'.ret]_vars

\* such a query, with the prefilter enabled and an index already built, that
\* returns documents
C4_Witness ==
  /\ Queried(last) /\ NoUsefulLiteral(last)
  /\ InEffect(last).enableBloomFilter
  /\ globalRegexSearchFilter # Null
  /\ Len(last.ret.docs) > 0

\* C5: a pattern that does not compile gives an empty result and no exception
C5_InvalidPattern ==
  Queried(last) /\ ~Compilable(last.pattern.s, last.options) =>
    last.ret = Return(<<>>)

\* a matcher that does not compile, reached with candidate documents to verify
C5_Witness ==
  /\ Queried(last) /\ ~Compilable(last.pattern.s, last.options)
  /\ last.path = "prefilter"
  /\ Len(last.candidateDocs) > 0

\* C6: totalQueries is the number of enhancedRegexMatch calls since the last
\* reset
C6_TotalQueries == regexSearchStats.totalQueries = queriesSinceReset

\* two queries counted, then the index cleared
C6_Witness ==
  /\ queriesSinceReset >= 2
  /\ last.op = "clear"

Counters ==
  {"totalQueries", "prefilterHits", "candidatesBeforeFilter", "candidatesAfterFilter",
   "actualMatches", "totalPrefilterTime", "totalVerificationTime",
   "unsupportedPatterns", "shortPatterns"}

\* C7: after resetRegexSearchStats a snapshot is all zero with the speedup at
\* 1.0, and the index and the configuration are as before
C7_Reset ==
  [][last'.op = "reset" =>
       LET snapshot == statsSnapshot(regexSearchStats')
       IN /\ \A c \in Counters : snapshot[c] = 0
          /\ snapshot.falsePositiveRate = <<0, 1>>
          /\ snapshot.averageSpeedupRatio = <<1, 1>>
          /\ globalRegexSearchFilter' = globalRegexSearchFilter
          /\ defaultConfig' = defaultConfig]_vars

\* a reset after queries, with an index built
C7_Witness ==
  /\ last.op = "reset" /\ last.priorQueries > 0
  /\ globalRegexSearchFilter # Null

\* what C8 says of a step that is a query without a useful literal
BypassesPrefilter ==
  /\ globalRegexSearchFilter' = globalRegexSearchFilter
  /\ last'.path = "ineligible"
  /\ regexSearchStats'.prefilterHits = regexSearchStats.prefilterHits
  /\ regexSearchStats'.candidatesBeforeFilter = regexSearchStats.candidatesBeforeFilter
  /\ regexSearchStats'.candidatesAfterFilter = regexSearchStats.candidatesAfterFilter
  /\ regexSearchStats'.shortPatterns = regexSearchStats.shortPatterns + 1
  /\ last'.ret = FullScan(last')

C9_ComplexityCeiling ==
  Queried(last) /\ Complexity(last.pattern.s) > InEffect(last).maxPatternComplexity
    => last.path = "ineligible"

\* C10: a query over the length ceiling without a literal counts one
\* unsupported pattern and returns the full scan; a query not over the ceiling
\* leaves unsupportedPatterns alone
C10_UnsupportedPatterns ==
  [][last'.op = "match" =>
       LET over == /\ last'.pattern.t = "string"
                   /\ Len(last'.pattern.s) > InEffect(last').maxPatternComplexity
       IN /\ over /\ extractLiteralsFromRegex(last'.pattern.s) = <<>> =>
               /\ regexSearchStats'.unsupportedPatterns =
                    regexSearchStats.unsupportedPatterns + 1
               /\ last'.ret = FullScan(last')
          /\ ~over =>
               regexSearchStats'.unsupportedPatterns =
                 regexSearchStats.unsupportedPatterns]_vars

\* a pattern over the ceiling without a literal, counted, that found documents
C10_Witness ==
  /\ Queried(last)
  /\ Len(last.pattern.s) > InEffect(last).maxPatternComplexity
  /\ extractLiteralsFromRegex(last.pattern.s) = <<>>
  /\ regexSearchStats.unsupportedPatterns > 0
  /\ Len(last.ret.docs) > 0

\* the identity of document number k (counted from 1) of a collection
Identity(collection, k) == DocId(collection[k], k - 1)

Identities(collection) == {Identity(collection, k) : k \in 1..Len(collection)}

\* prefiltering is enabled, the pattern has a literal of minLiteralLength and
\* its complexity score is within the ceiling
Eligible(call) ==
  /\ Queried(call) /\ call.pattern.s # <<>>
  /\ InEffect(call).enableBloomFilter
  /\ ~NoUsefulLiteral(call)
  /\ Complexity(call.pattern.s) <= InEffect(call).maxPatternComplexity

\* the candidates are more than 70% of the collection
OverThreshold(call) == 10 * Cardinality(call.candidates) > 7 * Len(call.collection)

\* the documents of the call's collection whose identity is a candidate
CandidateDocuments(call) ==
  {call.collection[k] : k \in {j \in 1..Len(call.collection) :
                                 Identity(call.collection, j) \in call.candidates}}

\* C11: an eligible query with candidates over 70% of the collection returns the
\* full scan without exception and leaves prefilterHits alone; any other
\* eligible query verifies candidate documents only and adds 1 to prefilterHits
C11_EffectivenessThreshold ==
  [][Eligible(last') =>
       IF OverThreshold(last')
       THEN /\ last'.ret = FullScan(last')
            /\ ~last'.ret.threw
            /\ regexSearchStats'.prefilterHits = regexSearchStats.prefilterHits
       ELSE /\ Range(last'.candidateDocs) \subseteq CandidateDocuments(last')
            /\ last'.ret = performFullRegexSearch(last'.candidateDocs, last'.field,
                                                  last'.pattern.s, last'.options)
            /\ regexSearchStats'.prefilterHits = regexSearchStats.prefilterHits + 1]_vars

\* the query is made with enableBloomFilter false in effect
Disabled(call) == Queried(call) /\ ~InEffect(call).enableBloomFilter

\* what C12 says of a step that is a query with prefiltering disabled
LeavesPrefilterAlone ==
  /\ globalRegexSearchFilter' = globalRegexSearchFilter
  /\ last'.path = "ineligible"
  /\ last'.candidates = {}
  /\ regexSearchStats'.prefilterHits = regexSearchStats.prefilterHits
  /\ regexSearchStats'.candidatesBeforeFilter = regexSearchStats.candidatesBeforeFilter
  /\ regexSearchStats'.candidatesAfterFilter = regexSearchStats.candidatesAfterFilter
  /\ last'.ret = FullScan(last')

C13_ConfigureInvalidates ==
  [][/\ last'.op = "configure"
     /\ \/ defaultConfig'.bloomFilterSizeBytes # defaultConfig.bloomFilterSizeBytes
        \/ defaultConfig'.enableBloomFilter # defaultConfig.enableBloomFilter
     => globalRegexSearchFilter' = Null]_vars

\* the bits of the trigrams of the texts at the field of the documents of the
\* collection that have the identity id
OwnBits(collection, field, id, filter) ==
  UNION {TrigramBits(t, filter) :
           t \in UNION {extractTrigrams(getNestedFieldValue(collection[k], field).s) :
                          k \in {j \in 1..Len(collection) :
                                   /\ Identity(collection, j) = id
                                   /\ getNestedFieldValue(collection[j], field).t
                                        = "string"}}}

\* C14: clearRegexSearchIndex leaves an index without entries and the statistics
\* and configuration as they were; the eligible query that follows it builds
\* the index from its own collection and draws its candidates from it
C14_ClearForcesRebuild ==
  [][/\ last'.op = "clear" =>
          /\ globalRegexSearchFilter'.docs = NoEntries
          /\ regexSearchStats' = regexSearchStats
          /\ defaultConfig' = defaultConfig
     /\ last.op = "clear" /\ last'.op = "match"
          /\ last'.path \in {"fallback", "prefilter"} =>
          /\ DOMAIN globalRegexSearchFilter'.docs \subseteq Identities(last'.collection)
          /\ \A id \in DOMAIN globalRegexSearchFilter'.docs :
               globalRegexSearchFilter'.docs[id] =
                 OwnBits(last'.collection, last'.field, id, globalRegexSearchFilter')
          /\ last'.candidates \subseteq Identities(last'.collection)]_vars

\* a query that follows a clear, after earlier queries had indexed other
\* documents, and verifies candidates of its own collection
C14_Witness ==
  /\ last.op = "match" /\ last.afterClear
  /\ last.path = "prefilter"
  /\ regexSearchStats.candidatesBeforeFilter > Len(last.collection)
  /\ last.candidates # {}

\* the candidates of the call that verify: a document of the collection has
\* the identity and a text at the field that the pattern matches
Verified(call) ==
  {d \in call.candidates :
     \E k \in 1..Len(call.collection) :
       LET fieldValue == getNestedFieldValue(call.collection[k], call.field)
       IN /\ Identity(call.collection, k) = d
          /\ fieldValue.t = "string"
          /\ Matches(call.pattern.s, call.options, fieldValue.s)}

\* candidates that did not verify over all candidates, 0 without candidates
ExpectedFalsePositiveRate(call) ==
  IF call.candidates = {} THEN <<0, 1>>
  ELSE Ratio(Cardinality(call.candidates \ Verified(call)),
             Cardinality(call.candidates))

\* C15: the snapshot taken after the one query made since the reset, a query
\* without flags, reports as falsePositiveRate the share of that query's
\* candidates that did not verify, whether the query verified its candidates
\* or fell back to the full scan
C15_FalsePositiveRate ==
  [][/\ last'.op = "stats" /\ last.op = "match" /\ queriesSinceReset = 1
     /\ last.options = <<>>
     => last'.snapshot.falsePositiveRate = ExpectedFalsePositiveRate(last)]_vars

\* the statistics object the caller holds, as the caller reads it
HeldSnapshot == Deref(held, regexSearchStats)

\* C16: getRegexSearchStats leaves the stored statistics as they are, no later
\* query, reset, configure or clear changes the object it returned, and a
\* write to that object leaves the stored statistics as they are
C16_Snapshot ==
  [][/\ last'.op = "stats" => regexSearchStats' = regexSearchStats
     /\ held.taken /\ last'.op \in {"match", "reset", "configure", "clear"} =>
          HeldSnapshot' = HeldSnapshot
     /\ last'.op = "modify" => regexSearchStats' = regexSearchStats]_vars

\* a snapshot taken after queries that counted candidates, held over a reset
C16_Witness ==
  /\ held.taken /\ last.op = "reset"
  /\ HeldSnapshot.totalQueries > 0
  /\ HeldSnapshot.candidatesAfterFilter > 0
  /\ regexSearchStats.totalQueries = 0

\* C17: the candidates of an eligible query are identities of documents of its
\* collection
C17_CandidatesOfOwnCollection ==
  Eligible(last) => last.candidates \subseteq Identities(last.collection)

\* C18: after an eligible query the entry of each document of its collection
\* with a text at the field holds the bits of the trigrams of that text only
C18_EntryOfOneDocumentAndField ==
  Eligible(last) =>
    \A k \in 1..Len(last.collection) :
      LET fieldValue == getNestedFieldValue(last.collection[k], last.field)
      IN fieldValue.t = "string" =>
           BitsOf(globalRegexSearchFilter, Identity(last.collection, k)) =
             UNION {TrigramBits(t, globalRegexSearchFilter) :
                      t \in extractTrigrams(fieldValue.s)}

\* C19: a document with a text at the field has an entry under its identity,
\* and on the prefilter-hit path a document is handed to the verifier exactly
\* when its identity is a candidate
C19_IdentityConsistent ==
  last.op = "match" /\ last.path = "prefilter" =>
    \A k \in 1..Len(last.collection) :
      /\ getNestedFieldValue(last.collection[k], last.field).t = "string" =>
           Identity(last.collection, k) \in DOMAIN globalRegexSearchFilter.docs
      /\ last.collection[k] \in Range(last.candidateDocs) <=>
           Identity(last.collection, k) \in last.candidates

\* the speedup ratio the query contributes: estimated full-scan time over
\* elapsed time if it verified candidates, else 1.0
Contribution(call) ==
  IF call.path = "prefilter"
  THEN Ratio(Len(call.collection), Len(call.candidateDocs)) ELSE <<1, 1>>

\* C20: each query moves averageSpeedupRatio to the mean of the contributions
\* of the queries since the reset, its own included (queries that verified
\* candidates with no time elapsed or no candidate document are left out)
C20_AverageSpeedup ==
  [][/\ last'.op = "match"
     /\ ~(last'.path = "prefilter" /\ (last'.elapsed = 0 \/ last'.candidateDocs = <<>>))
     => regexSearchStats'.averageSpeedupRatio =
          RunningAverage(regexSearchStats.averageSpeedupRatio, Contribution(last'),
                         queriesSinceReset + 1)]_vars

\* C21: on the prefilter-hit path, verifying the candidate documents selects
\* exactly those of them that verifying the whole collection selects, whatever
\* the options
C21_VerdictPerDocument ==
  last.op = "match" /\ last.path = "prefilter" =>
    Range(last.ret.docs) = Range(last.candidateDocs) \cap Range(FullScan(last).docs)

\* C22: the accumulated actualMatches never exceeds the accumulated
\* candidatesAfterFilter
C22_MatchesWithinCandidates ==
  regexSearchStats.actualMatches <= regexSearchStats.candidatesAfterFilter

\* enhancedRegexMatch, called in the current state with prefiltering enabled and
\* the configured limits, builds and probes the index for the pattern
ConsultsIndex(pattern) ==
  enhancedRegexMatchCall(regexSearchStats, defaultConfig, globalRegexSearchFilter,
                         Plain, text, Str(pattern), <<>>,
                         [enableBloomFilter |-> TRUE], 0, 0).path
    \in {"fallback", "prefilter"}

\* C23: analyzeRegexPattern reports suitableForBloom exactly for the patterns
\* that enhancedRegexMatch treats as eligible under the configured
\* minLiteralLength and maxPatternComplexity, and changes no statistics, index
\* or configuration
C23_AnalysisAgrees ==
  [][last'.op = "analyze" =>
       /\ last'.report.suitableForBloom <=> ConsultsIndex(last'.pattern.s)
       /\ regexSearchStats' = regexSearchStats
       /\ globalRegexSearchFilter' = globalRegexSearchFilter
       /\ defaultConfig' = defaultConfig]_vars
====
